---- MODULE Spec2Model ----
(***************************************************************************)
(* Model of tvapi/tizenws.py: the TizenWebsocket client, its two channel   *)
(* supervisors (_open_connection), the running-app monitor, the token      *)
(* store (MemoryDataStore) and the command surface (send_key, run_app).    *)
(*                                                                         *)
(* Scheduling is asyncio's: one task runs at a time and gives up the       *)
(* processor only at an await that really suspends.  Every action below    *)
(* is the code a task (or the caller) runs from one suspension point to    *)
(* the next.  The monitor loop can run without ever suspending, so its     *)
(* loop is cut into steps that hold the processor (variable running).      *)
(* CancelledError is taken to be a BaseException (Python 3.8 and later):   *)
(* "except Exception" does not catch it.                                   *)
(***************************************************************************)
EXTENDS Integers, Sequences, FiniteSets, TLC

\* ---------------------------------------------------------------- bounds
\* open() calls and device frames of a run of Spec; device frames of a run
\* of CmdSpec (which has one open() call).
MaxOpens == 2
MaxFrames == 2
CmdFrames == 2
AppFrames == 4
RouterFrames == 4

\* ------------------------------------------------------------- constants
WS_REMOTE == "remote"
WS_CONTROL == "control"
WS_ENDPOINT_REMOTE_CONTROL == "/api/v2/channels/samsung.remote.control"
WS_ENDPOINT_APP_CONTROL == "/api/v2"

NoTask == 0
NoToken == "none"
Tokens == {"t1", "t2"}
NoApp == [app_id |-> "none", app_type |-> 0]
AppIds == {"A", "B"}
UnknownId == "X"

MaxOf(S) == CHOOSE x \in S : \A y \in S : y <= x

\* Every open() and every ms.channel.connect frame creates at most one task:
\* the most tasks a run of any of the specifications below creates.
MaxTasks == MaxOf({MaxOpens + MaxFrames, 1 + CmdFrames, 1 + AppFrames, 1 + RouterFrames})
TaskIds == 1..MaxTasks

\* retry_delay(num_errors): the seconds it sleeps.
retry_delay(num_errors) ==
    LET d == (2 ^ (num_errors - 1)) * 5
    IN  IF d < 300 THEN d ELSE 300

\* format_websocket_url: the token is a query parameter only when truthy.
format_websocket_url(path, token) ==
    [scheme |-> "wss", port |-> 8002, path |-> path,
     token |-> IF token # NoToken THEN token ELSE NoToken]

NoUrl == [scheme |-> "", port |-> 0, path |-> "", token |-> NoToken]

\* App(app_id, app_name, app_type); the name plays no part once the
\* "waipu" filter of _build_app_list has been applied.
App(id, type) == [app_id |-> id, app_type |-> type]

\* An entry of an ed.installedApp.get response.
Entry(id, type, waipu) == [appId |-> id, app_type |-> type, waipu |-> waipu]

\* app_type of an entry that has no "app_type" key.
NoField == -1

\* Responses with an entry that lacks a key: app_info["app_type"] raises.
BadResponses ==
    { <<Entry("B", 4, FALSE), Entry("A", NoField, FALSE)>>,
      <<Entry("A", NoField, TRUE), Entry("B", NoField, FALSE)>> }

\* The installed-apps responses the device sends in this model.
Responses ==
    { <<Entry("A", 4, FALSE), Entry("B", 2, FALSE)>>,
      <<Entry("B", 4, FALSE)>>,
      <<Entry("A", 2, TRUE)>> }

VARIABLES
    task,              \* task id -> the task's record (asyncio tasks ever created)
    remote_task,       \* self._remote_task
    control_task,      \* self._control_task
    app_monitor_task,  \* self._app_monitor_task
    ws_remote,         \* self._ws_remote: the supervisor whose socket it is, or 0
    ws_control,        \* self._ws_control
    connected,         \* self._connected
    installed_apps,    \* self.installed_apps: sequence of App in insertion order
    current_app,       \* self.current_app
    found_running_app, \* self._found_running_app
    store_data,        \* MemoryDataStore._data["token"], NoToken when _data is empty
    store_file,        \* the token in the backing file
    issued,            \* device: the last token it sent in ms.channel.connect (remote)
    running,           \* the task holding the processor, 0 when all are suspended
    closeCalled,       \* caller: close() was called and open() not since
    ev,                \* the last step: who ran, on what input, with what effects
    frames_left,       \* frames the device may still send in this run
    opens_left         \* open() calls the caller may still make in this run

vars == <<task, remote_task, control_task, app_monitor_task, ws_remote, ws_control,
          connected, installed_apps, current_app, found_running_app, store_data,
          store_file, issued, running, closeCalled, ev, frames_left, opens_left>>

\* inflight (of a supervisor): the app ids of the status queries written to its
\* socket that the device has not answered yet.  hs (of a supervisor): it has
\* received ms.channel.connect; kept when the task has returned.
NoTaskRec ==
    [kind |-> "none", pc |-> "none", cancel |-> FALSE,
     loaded |-> NoToken, tok |-> NoToken, url |-> NoUrl, todo |-> <<>>, sleep |-> 0,
     inflight |-> {}, hs |-> FALSE]

NewTask(kind) == [NoTaskRec EXCEPT !.kind = kind, !.pc = "start"]

\* A task that has returned.
Ended(t) == [NoTaskRec EXCEPT !.kind = task[t].kind, !.pc = "done", !.hs = task[t].hs]

NumTasks == Cardinality({t \in TaskIds : task[t].kind # "none"})
NewId == NumTasks + 1

IsSupervisor(t) == task[t].kind \in {WS_REMOTE, WS_CONTROL}
Live(t) == task[t].kind # "none" /\ task[t].pc # "done"

\* ws.closed of the socket supervisor c opened.
WsClosed(c) == task[c].pc \in {"closing", "done"}

\* The record of a step: the operation, the task that ran (0: the caller), its
\* input (data: the app list of an installed-apps response), the effects it
\* had outside the task itself, the frames it sent, and whether an exception
\* reached the caller.
Ev(op, t, arg, fx, sent) ==
    [op |-> op, t |-> t, arg |-> arg, param |-> "", fx |-> fx, sent |-> sent,
     raised |-> FALSE, data |-> <<>>]

Frame(chan, conn, method, app, action) ==
    [chan |-> chan, conn |-> conn, method |-> method, app |-> app, action |-> action]

InitWith(opens, frames) ==
    /\ task = [t \in TaskIds |-> NoTaskRec]
    /\ remote_task = NoTask
    /\ control_task = NoTask
    /\ app_monitor_task = NoTask
    /\ ws_remote = NoTask
    /\ ws_control = NoTask
    /\ connected = FALSE
    /\ installed_apps = <<>>
    /\ current_app = NoApp
    /\ found_running_app = FALSE
    /\ store_data = NoToken
    /\ store_file = NoToken
    /\ issued = NoToken
    /\ running = NoTask
    /\ closeCalled = FALSE
    /\ ev = Ev("init", NoTask, "", {}, <<>>)
    /\ frames_left = frames
    /\ opens_left = opens

Init == InitWith(MaxOpens, MaxFrames)

\* ------------------------------------------------------------ the caller

\* open(): starts a remote supervisor, whatever the state of the channel.
Open ==
    /\ running = NoTask
    /\ opens_left > 0
    /\ task' = [task EXCEPT ![NewId] = NewTask(WS_REMOTE)]
    /\ remote_task' = NewId
    /\ closeCalled' = FALSE
    /\ opens_left' = opens_left - 1
    /\ ev' = Ev("open", NoTask, "", {"spawn"}, <<>>)
    /\ UNCHANGED <<control_task, app_monitor_task, ws_remote, ws_control, connected,
                   installed_apps, current_app, found_running_app, store_data,
                   store_file, issued, running, frames_left>>

\* task.cancel() of the tasks the three handles name; a task that is done is
\* left alone, any other gets a CancelledError at its next resumption.
CancelOf(h) == {t \in TaskIds : t = h /\ Live(t)}

Close ==
    /\ running = NoTask
    /\ LET hit == CancelOf(remote_task) \cup CancelOf(control_task)
                      \cup CancelOf(app_monitor_task)
       IN  task' = [t \in TaskIds |->
                       IF t \in hit THEN [task[t] EXCEPT !.cancel = TRUE] ELSE task[t]]
    /\ closeCalled' = TRUE
    /\ ev' = Ev("close", NoTask, "", {}, <<>>)
    /\ UNCHANGED <<remote_task, control_task, app_monitor_task, ws_remote, ws_control,
                   connected, installed_apps, current_app, found_running_app,
                   store_data, store_file, issued, running, frames_left, opens_left>>

\* --------------------------------------------------- channel supervisors

Chan(t) == task[t].kind
PathOf(t) ==
    IF Chan(t) = WS_REMOTE THEN WS_ENDPOINT_REMOTE_CONTROL ELSE WS_ENDPOINT_APP_CONTROL

\* setattr(self, f"_ws_{conn_name}", v)
SetWs(chan, v) ==
    IF chan = WS_REMOTE
    THEN ws_remote' = v /\ UNCHANGED ws_control
    ELSE ws_control' = v /\ UNCHANGED ws_remote

\* The finally block of _open_connection, and the task's return.
Finish(t) ==
    /\ task' = [task EXCEPT ![t] = Ended(t)]
    /\ SetWs(Chan(t), NoTask)
    /\ connected' = FALSE

Resumable(t, pc) ==
    /\ running = NoTask
    /\ task[t].pc = pc
    /\ ~task[t].cancel

\* _open_connection up to its first suspension: the token read (remote only),
\* which suspends in _load_from_store when _data is empty, else ws_connect.
SupStart(t) ==
    /\ IsSupervisor(t)
    /\ Resumable(t, "start")
    /\ IF Chan(t) = WS_REMOTE /\ store_data = NoToken
       THEN /\ task' = [task EXCEPT ![t].pc = "get_load", ![t].loaded = store_file]
            /\ ev' = Ev("start", t, Chan(t), {}, <<>>)
       ELSE /\ task' = [task EXCEPT ![t].pc = "connecting",
                           ![t].url = format_websocket_url(PathOf(t),
                               IF Chan(t) = WS_REMOTE THEN store_data ELSE NoToken)]
            /\ ev' = Ev("attempt", t, Chan(t), {"connect"}, <<>>)
    /\ UNCHANGED <<remote_task, control_task, app_monitor_task, ws_remote, ws_control,
                   connected, installed_apps, current_app, found_running_app,
                   store_data, store_file, issued, running, closeCalled, frames_left,
                   opens_left>>

\* get_data resumes: self._data = <what was loaded>; the token of it goes into the URL.
GetLoadDone(t) ==
    /\ Resumable(t, "get_load")
    /\ store_data' = task[t].loaded
    /\ task' = [task EXCEPT ![t].pc = "connecting", ![t].loaded = NoToken,
                   ![t].url = format_websocket_url(PathOf(t), task[t].loaded)]
    /\ ev' = Ev("attempt", t, Chan(t), {"connect"}, <<>>)
    /\ UNCHANGED <<remote_task, control_task, app_monitor_task, ws_remote, ws_control,
                   connected, installed_apps, current_app, found_running_app,
                   store_file, issued, running, closeCalled, frames_left, opens_left>>

\* ws_connect succeeds: the handle is set and the read loop waits for a frame.
ConnectOK(t) ==
    /\ Resumable(t, "connecting")
    /\ task' = [task EXCEPT ![t].pc = "receive"]
    /\ SetWs(Chan(t), t)
    /\ ev' = Ev("connected", t, Chan(t), {}, <<>>)
    /\ UNCHANGED <<remote_task, control_task, app_monitor_task, connected,
                   installed_apps, current_app, found_running_app, store_data,
                   store_file, issued, running, closeCalled, frames_left, opens_left>>

\* ws_connect raises ClientConnectionError: logged, finally, return.
ConnectFail(t) ==
    /\ Resumable(t, "connecting")
    /\ Finish(t)
    /\ ev' = Ev("connect_failed", t, Chan(t), {}, <<>>)
    /\ UNCHANGED <<remote_task, control_task, app_monitor_task, installed_apps,
                   current_app, found_running_app, store_data, store_file, issued,
                   running, closeCalled, frames_left, opens_left>>

\* The device closes the connection (cleanly or not): "async for" ends.
RemoteClose(t) ==
    /\ Resumable(t, "receive")
    /\ Finish(t)
    /\ ev' = Ev("remote_close", t, Chan(t), {}, <<>>)
    /\ UNCHANGED <<remote_task, control_task, app_monitor_task, installed_apps,
                   current_app, found_running_app, store_data, store_file, issued,
                   running, closeCalled, frames_left, opens_left>>

\* A task given a CancelledError at its suspension point.  Before the try
\* block (not started, or reading the token) nothing is cleaned up; in
\* ws_connect the finally block runs; with an open socket "async with"
\* first closes it, which suspends once more (ws.closed is true meanwhile).
Cancelled(t) ==
    /\ running = NoTask
    /\ Live(t)
    /\ task[t].cancel
    /\ ev' = Ev("cancelled", t, Chan(t), {}, <<>>)
    /\ CASE task[t].pc \in {"start", "get_load", "sleep"} ->
               /\ task' = [task EXCEPT ![t] = Ended(t)]
               /\ UNCHANGED <<ws_remote, ws_control, connected>>
         [] task[t].pc \in {"connecting", "closing"} ->
               Finish(t)
         [] OTHER ->
               /\ task' = [task EXCEPT ![t].pc = "closing", ![t].cancel = FALSE,
                              ![t].loaded = NoToken, ![t].tok = NoToken]
               /\ UNCHANGED <<ws_remote, ws_control, connected>>
    /\ UNCHANGED <<remote_task, control_task, app_monitor_task, installed_apps,
                   current_app, found_running_app, store_data, store_file, issued,
                   running, closeCalled, frames_left, opens_left>>

\* ws.close() returns inside "async with": finally, return.
ClosingDone(t) ==
    /\ Resumable(t, "closing")
    /\ Finish(t)
    /\ ev' = Ev("closed", t, Chan(t), {}, <<>>)
    /\ UNCHANGED <<remote_task, control_task, app_monitor_task, installed_apps,
                   current_app, found_running_app, store_data, store_file, issued,
                   running, closeCalled, frames_left, opens_left>>

\* ------------------------------------------------ registry, current app

InRegistry(reg, id) == \E i \in DOMAIN reg : reg[i].app_id = id

\* dict.get(app_id): the App, or None.
Lookup(reg, id) ==
    IF InRegistry(reg, id)
    THEN reg[CHOOSE i \in DOMAIN reg : reg[i].app_id = id]
    ELSE NoApp

\* installed_apps[app_id] = app on a dict that keeps insertion order.
Put(reg, app) ==
    IF InRegistry(reg, app.app_id)
    THEN [i \in DOMAIN reg |-> IF reg[i].app_id = app.app_id THEN app ELSE reg[i]]
    ELSE Append(reg, app)

\* The loop of _build_app_list over the response's entries.
RECURSIVE BuildApps(_, _)
BuildApps(list, acc) ==
    IF list = <<>>
    THEN acc
    ELSE LET e == Head(list)
         IN  IF e.waipu
             THEN BuildApps(Tail(list), acc)
             ELSE BuildApps(Tail(list), Put(acc, App(e.appId, e.app_type)))

\* _build_app_list that adds to the registry in place of replacing it.
_build_app_list_Merge(response) == BuildApps(response, installed_apps)

_build_app_list(response) == BuildApps(response, <<>>)

\* The loop raises KeyError at the first entry it does not skip that lacks a
\* key; the assignment to self.installed_apps is then never reached.
BuildFails(response) ==
    \E i \in DOMAIN response : ~response[i].waipu /\ response[i].app_type = NoField

\* RegistryAfter for a _build_app_list that fills self.installed_apps in
\* place: a KeyError leaves the entries built before it.
RegistryAfter_InPlace(response) ==
    IF BuildFails(response)
    THEN LET bad(i) == ~response[i].waipu /\ response[i].app_type = NoField
             first == CHOOSE i \in DOMAIN response :
                          bad(i) /\ \A j \in 1..(i - 1) : ~bad(j)
         IN  BuildApps(SubSeq(response, 1, first - 1), <<>>)
    ELSE _build_app_list(response)

\* self.installed_apps once _build_app_list(response) has returned or raised.
RegistryAfter(response) ==
    IF BuildFails(response) THEN installed_apps ELSE _build_app_list(response)

\* _update_current_app(app_id): the new value of current_app.
NewCurrentApp(app_id) ==
    IF app_id # "none" THEN Lookup(installed_apps, app_id) ELSE NoApp

\* ----------------------------------------------------------- the router

CanReceive(t) ==
    /\ IsSupervisor(t)
    /\ Resumable(t, "receive")
    /\ frames_left > 0

\* ms.channel.unauthorized: _handle_message raises AuthorizationError inside
\* the read loop's own try, whose "except Exception" logs it; the loop goes on.
RecvUnauthorized(t) ==
    /\ CanReceive(t)
    /\ frames_left' = frames_left - 1
    /\ ev' = Ev("recv", t, "unauthorized", {}, <<>>)
    /\ UNCHANGED <<task, remote_task, control_task, app_monitor_task, ws_remote,
                   ws_control, connected, installed_apps, current_app,
                   found_running_app, store_data, store_file, issued, running,
                   closeCalled, opens_left>>

\* request_installed_apps: the frame goes out on self._ws_remote, if that is
\* an open socket; any exception is logged.
InstalledAppsRequest ==
    IF ws_remote # NoTask /\ ~WsClosed(ws_remote)
    THEN <<Frame(WS_REMOTE, ws_remote, "ed.installedApp.get", "", "")>>
    ELSE <<>>

\* The rest of _on_connect_remote once the token is dealt with: request the
\* installed apps, start a control supervisor, back to the read loop.
AfterToken(t) ==
    /\ task' = [task EXCEPT ![t].pc = "receive", ![t].tok = NoToken, ![t].hs = TRUE,
                   ![NewId] = NewTask(WS_CONTROL)]
    /\ control_task' = NewId
    /\ ev' = Ev("handshake", t, WS_REMOTE,
                IF InstalledAppsRequest = <<>> THEN {"spawn"} ELSE {"spawn", "send"},
                InstalledAppsRequest)

\* ms.channel.connect on the remote channel.  self._store.set suspends in
\* _load_from_store when _data is empty and in _save_to_store always.
RecvConnectRemote(t, tok) ==
    /\ Chan(t) = WS_REMOTE
    /\ CanReceive(t)
    /\ frames_left' = frames_left - 1
    /\ issued' = IF tok # NoToken THEN tok ELSE issued
    /\ IF tok = NoToken
       THEN /\ AfterToken(t)
            /\ UNCHANGED <<store_data, store_file>>
       ELSE /\ IF store_data = NoToken
               THEN /\ task' = [task EXCEPT ![t].pc = "set_load", ![t].tok = tok,
                                   ![t].loaded = store_file, ![t].hs = TRUE]
                    /\ UNCHANGED <<store_data, store_file>>
               ELSE /\ task' = [task EXCEPT ![t].pc = "set_save", ![t].tok = tok,
                                   ![t].hs = TRUE]
                    /\ store_data' = tok
                    /\ store_file' = tok
            /\ ev' = Ev("recv", t, "connect", {}, <<>>)
            /\ UNCHANGED control_task
    /\ UNCHANGED <<remote_task, app_monitor_task, ws_remote, ws_control, connected,
                   installed_apps, current_app, found_running_app, running,
                   closeCalled, opens_left>>

\* set resumes from get_data: self._data = <loaded>; self._data[key] = value;
\* then the write of the file is started.
SetLoadDone(t) ==
    /\ Resumable(t, "set_load")
    /\ store_data' = task[t].tok
    /\ store_file' = task[t].tok
    /\ task' = [task EXCEPT ![t].pc = "set_save", ![t].loaded = NoToken]
    /\ ev' = Ev("stored", t, WS_REMOTE, {}, <<>>)
    /\ UNCHANGED <<remote_task, control_task, app_monitor_task, ws_remote, ws_control,
                   connected, installed_apps, current_app, found_running_app, issued,
                   running, closeCalled, frames_left, opens_left>>

\* set returns: _on_connect_remote goes on.
SetSaveDone(t) ==
    /\ Resumable(t, "set_save")
    /\ AfterToken(t)
    /\ UNCHANGED <<remote_task, app_monitor_task, ws_remote, ws_control, connected,
                   installed_apps, current_app, found_running_app, store_data,
                   store_file, issued, running, closeCalled, frames_left, opens_left>>

\* ms.channel.connect on the control channel: _on_connect_control.
RecvConnectControl(t) ==
    /\ Chan(t) = WS_CONTROL
    /\ CanReceive(t)
    /\ frames_left' = frames_left - 1
    /\ task' = [task EXCEPT ![t].hs = TRUE, ![NewId] = NewTask("monitor")]
    /\ app_monitor_task' = NewId
    /\ connected' = TRUE
    /\ ev' = Ev("handshake", t, WS_CONTROL, {"spawn"}, <<>>)
    /\ UNCHANGED <<remote_task, control_task, ws_remote, ws_control, installed_apps,
                   current_app, found_running_app, store_data, store_file, issued,
                   running, closeCalled, opens_left>>

\* What a handler leaves in the step's record.  An exception in the handler
\* (cb false: the callback raises) is caught and logged by the read loop.
HandlerFx(fx, cb) == IF cb THEN fx ELSE fx \cup {"handler_error"}

\* ed.installedApp.get on the remote channel: _build_app_list, then
\* self._update().  cb: the callback returns normally.
RecvInstalledCb(t, response, cb) ==
    /\ Chan(t) = WS_REMOTE
    /\ CanReceive(t)
    /\ frames_left' = frames_left - 1
    /\ installed_apps' = RegistryAfter(response)
    /\ ev' = [Ev("recv", t, "installed",
                  IF BuildFails(response)
                  THEN {"handler_error"}
                  ELSE HandlerFx({"registry", "callback"}, cb), <<>>)
                 EXCEPT !.data = response]
    /\ UNCHANGED <<task, remote_task, control_task, app_monitor_task, ws_remote,
                   ws_control, connected, current_app, found_running_app, store_data,
                   store_file, issued, running, closeCalled, opens_left>>

RecvInstalled(t, response) == RecvInstalledCb(t, response, TRUE)

\* An ed.installedApp.get frame without a data list: "for app_info in None"
\* raises TypeError before anything is assigned.
RecvInstalledNoList(t) ==
    /\ Chan(t) = WS_REMOTE
    /\ CanReceive(t)
    /\ frames_left' = frames_left - 1
    /\ ev' = [Ev("recv", t, "installed", {"handler_error"}, <<>>)
                 EXCEPT !.param = "no_list"]
    /\ UNCHANGED <<task, remote_task, control_task, app_monitor_task, ws_remote,
                   ws_control, connected, installed_apps, current_app,
                   found_running_app, store_data, store_file, issued, running,
                   closeCalled, opens_left>>

\* A frame with a result on the control channel: _on_message_control.
\* positive: result is True, or a dict with running and visible both true.
StatusEffect(t, id, positive, cb) ==
    IF positive
    THEN /\ found_running_app' = TRUE
         /\ current_app' = NewCurrentApp(id)
         /\ ev' = Ev("recv", t, "status",
                     IF NewCurrentApp(id) # current_app
                     THEN HandlerFx({"current_app", "callback"}, cb) ELSE {}, <<>>)
    ELSE /\ UNCHANGED <<found_running_app, current_app>>
         /\ ev' = Ev("recv", t, "status", {}, <<>>)

RecvStatus(t, id, positive) ==
    /\ Chan(t) = WS_CONTROL
    /\ CanReceive(t)
    /\ frames_left' = frames_left - 1
    /\ StatusEffect(t, id, positive, TRUE)
    /\ UNCHANGED <<task, remote_task, control_task, app_monitor_task, ws_remote,
                   ws_control, connected, installed_apps, store_data, store_file,
                   issued, running, closeCalled, opens_left>>

\* The app that runs and is visible on the device while it answers queries.
DeviceApp == "B"

\* The device answers a status query it was sent on this connection: the
\* result is positive for the app that runs on the device, negative for any
\* other.  cb: the callback, if invoked, returns normally.
RecvReply(t, id, cb) ==
    /\ Chan(t) = WS_CONTROL
    /\ Resumable(t, "receive")
    /\ id \in task[t].inflight
    /\ cb \/ (id = DeviceApp /\ NewCurrentApp(id) # current_app)
    /\ task' = [task EXCEPT ![t].inflight = @ \ {id}]
    /\ StatusEffect(t, id, id = DeviceApp, cb)
    /\ UNCHANGED <<remote_task, control_task, app_monitor_task, ws_remote,
                   ws_control, connected, installed_apps, store_data, store_file,
                   issued, running, closeCalled, frames_left, opens_left>>

\* Any other text frame: no handler acts on it.
RecvOther(t) ==
    /\ CanReceive(t)
    /\ frames_left' = frames_left - 1
    /\ ev' = Ev("recv", t, "other", {}, <<>>)
    /\ UNCHANGED <<task, remote_task, control_task, app_monitor_task, ws_remote,
                   ws_control, connected, installed_apps, current_app,
                   found_running_app, store_data, store_file, issued, running,
                   closeCalled, opens_left>>

\* A text frame whose payload is not the JSON object the router expects:
\* msg.json() or payload.get raises, the read loop logs it and goes on.
RecvMalformed(t) ==
    /\ CanReceive(t)
    /\ frames_left' = frames_left - 1
    /\ ev' = Ev("recv", t, "malformed", {"handler_error"}, <<>>)
    /\ UNCHANGED <<task, remote_task, control_task, app_monitor_task, ws_remote,
                   ws_control, connected, installed_apps, current_app,
                   found_running_app, store_data, store_file, issued, running,
                   closeCalled, opens_left>>

\* A frame of type ERROR: _handle_message raises msg.data (or AttributeError,
\* there being no _on_error_ handler) inside the read loop's own try, whose
\* "except Exception" logs it.  closed: the library has closed the socket
\* along with the error, so "async for" ends at once (finally, return);
\* otherwise the read loop waits for the next frame.
RecvError(t, closed) ==
    /\ CanReceive(t)
    /\ frames_left' = frames_left - 1
    /\ ev' = Ev("recv", t, "error", {"handler_error"}, <<>>)
    /\ IF closed
       THEN Finish(t)
       ELSE UNCHANGED <<task, ws_remote, ws_control, connected>>
    /\ UNCHANGED <<remote_task, control_task, app_monitor_task, installed_apps,
                   current_app, found_running_app, store_data, store_file, issued,
                   running, closeCalled, opens_left>>

\* ---------------------------------------------------- running-app monitor

ControlOpen == ws_control # NoTask /\ ~WsClosed(ws_control)

\* The query of one app: the method depends on app_type.
StatusQuery(app) ==
    Frame(WS_CONTROL, ws_control,
          IF app.app_type = 4 THEN "ms.webapplication.get" ELSE "ms.application.get",
          app.app_id, "")

\* The monitor task gets the processor: at its start, or when its sleep ends.
MonWake(t) ==
    /\ task[t].kind = "monitor"
    /\ running = NoTask
    /\ task[t].pc \in {"start", "sleep"}
    /\ ~task[t].cancel
    /\ running' = t
    /\ task' = [task EXCEPT ![t].pc = IF task[t].pc = "start" THEN "while" ELSE "for",
                   ![t].sleep = 0]
    /\ ev' = Ev("wake", t, "monitor", {}, <<>>)
    /\ UNCHANGED <<remote_task, control_task, app_monitor_task, ws_remote, ws_control,
                   connected, installed_apps, current_app, found_running_app,
                   store_data, store_file, issued, closeCalled, frames_left, opens_left>>

\* while self._ws_control and not self._ws_control.closed: a sweep starts over
\* the values of the registry as it is now; else the monitor returns.
MonWhile(t) ==
    /\ running = t
    /\ task[t].pc = "while"
    /\ IF ControlOpen
       THEN /\ found_running_app' = FALSE
            /\ task' = [task EXCEPT ![t].pc = "for", ![t].todo = installed_apps]
            /\ UNCHANGED running
            /\ ev' = Ev("sweep", t, "monitor", {}, <<>>)
       ELSE /\ task' = [task EXCEPT ![t] = Ended(t)]
            /\ running' = NoTask
            /\ UNCHANGED found_running_app
            /\ ev' = Ev("exit", t, "monitor", {}, <<>>)
    /\ UNCHANGED <<remote_task, control_task, app_monitor_task, ws_remote, ws_control,
                   connected, installed_apps, current_app, store_data, store_file,
                   issued, closeCalled, frames_left, opens_left>>

\* One pass of the for loop.  A query that is sent is followed by a sleep of
\* 0.1 s; one that raises is logged and the loop goes on without suspending.
\* After the last app, or at the break, Current App is cleared if no app
\* reported running.
MonFor(t, ok) ==
    /\ running = t
    /\ task[t].pc = "for"
    /\ IF task[t].todo = <<>> \/ ~ControlOpen
       THEN /\ ok
            /\ task' = [task EXCEPT ![t].pc = "while", ![t].todo = <<>>]
            /\ UNCHANGED running
            /\ IF current_app # NoApp /\ ~found_running_app
               THEN /\ current_app' = NoApp
                    /\ ev' = Ev("sweep_end", t, "monitor",
                                {"current_app", "callback"}, <<>>)
               ELSE /\ UNCHANGED current_app
                    /\ ev' = Ev("sweep_end", t, "monitor", {}, <<>>)
       ELSE /\ UNCHANGED current_app
            /\ IF ok
               THEN /\ task' = [task EXCEPT ![t].pc = "sleep", ![t].sleep = 100,
                                   ![t].todo = Tail(task[t].todo),
                                   ![ws_control].inflight =
                                       @ \cup {Head(task[t].todo).app_id}]
                    /\ running' = NoTask
                    /\ ev' = Ev("query", t, "monitor", {"send"},
                                <<StatusQuery(Head(task[t].todo))>>)
               ELSE /\ task' = [task EXCEPT ![t].todo = Tail(task[t].todo)]
                    /\ UNCHANGED running
                    /\ ev' = Ev("query_failed", t, "monitor", {}, <<>>)
    /\ UNCHANGED <<remote_task, control_task, app_monitor_task, ws_remote, ws_control,
                   connected, installed_apps, found_running_app, store_data,
                   store_file, issued, closeCalled, frames_left, opens_left>>

\* The end of a sweep that clears Current App, with a callback that raises:
\* _update_current_app(None) is called outside any try block, after
\* self.current_app has been assigned, and the exception leaves
\* _monitor_running_app: the task ends with it.
MonSweepEndRaise(t) ==
    /\ running = t
    /\ task[t].pc = "for"
    /\ task[t].todo = <<>> \/ ~ControlOpen
    /\ current_app # NoApp /\ ~found_running_app
    /\ current_app' = NoApp
    /\ task' = [task EXCEPT ![t] = Ended(t)]
    /\ running' = NoTask
    /\ ev' = Ev("uncaught", t, "monitor", {"current_app", "callback"}, <<>>)
    /\ UNCHANGED <<remote_task, control_task, app_monitor_task, ws_remote, ws_control,
                   connected, installed_apps, found_running_app, store_data,
                   store_file, issued, closeCalled, frames_left, opens_left>>

\* -------------------------------------------------------- command surface

HandleOpen(h) == h # NoTask /\ ~WsClosed(h)

\* send_key: the frame goes out on self._ws_remote.  With no socket
\* (AttributeError on None), a closed one or a failed write the exception is
\* caught and logged: the call returns normally.  ok: the write succeeds.
SendKey(key, ok) ==
    /\ running = NoTask
    /\ ok => HandleOpen(ws_remote)
    /\ ev' = Ev("send_key", NoTask, key,
                IF ok THEN {"send"} ELSE {"send_error"},
                IF ok THEN <<Frame(WS_REMOTE, ws_remote, "ms.remote.control", key, "")>>
                      ELSE <<>>)
    /\ UNCHANGED <<task, remote_task, control_task, app_monitor_task, ws_remote,
                   ws_control, connected, installed_apps, current_app,
                   found_running_app, store_data, store_file, issued, running,
                   closeCalled, frames_left, opens_left>>

\* DefaultActionType with the test on the type the monitor tests for (4).
DefaultActionType_MonitorType(app_id) ==
    IF /\ InRegistry(installed_apps, app_id)
       /\ Lookup(installed_apps, app_id).app_type # 4
    THEN "NATIVE_LAUNCH"
    ELSE "DEEP_LINK"

\* DefaultActionType with the test turned round: DEEP_LINK only for a
\* registry entry of type 2, NATIVE_LAUNCH for all else.
DefaultActionType_NativeDefault(app_id) ==
    IF /\ InRegistry(installed_apps, app_id)
       /\ Lookup(installed_apps, app_id).app_type = 2
    THEN "DEEP_LINK"
    ELSE "NATIVE_LAUNCH"

\* run_app without action_type: from the registry entry's app_type.
DefaultActionType(app_id) ==
    IF /\ InRegistry(installed_apps, app_id)
       /\ Lookup(installed_apps, app_id).app_type # 2
    THEN "NATIVE_LAUNCH"
    ELSE "DEEP_LINK"

ActionType(app_id, action_type) ==
    IF action_type = "" THEN DefaultActionType(app_id) ELSE action_type

\* The frame of run_app and the socket it is written to.
RunAppHandle(act) == IF act = "DEEP_LINK" THEN ws_control ELSE ws_remote

RunAppFrame(app_id, act) ==
    IF act = "DEEP_LINK"
    THEN Frame(WS_CONTROL, ws_control, "ms.application.start", app_id, "")
    ELSE Frame(WS_REMOTE, ws_remote, "ed.apps.launch", app_id, act)

\* run_app: as send_key, any exception is caught and logged.
RunApp(app_id, action_type, ok) ==
    /\ running = NoTask
    /\ LET act == ActionType(app_id, action_type)
       IN  /\ ok => HandleOpen(RunAppHandle(act))
           /\ ev' = [Ev("run_app", NoTask, app_id,
                        IF ok THEN {"send"} ELSE {"send_error"},
                        IF ok THEN <<RunAppFrame(app_id, act)>> ELSE <<>>)
                     EXCEPT !.param = action_type]
    /\ UNCHANGED <<task, remote_task, control_task, app_monitor_task, ws_remote,
                   ws_control, connected, installed_apps, current_app,
                   found_running_app, store_data, store_file, issued, running,
                   closeCalled, frames_left, opens_left>>

\* ------------------------------------------------------- specifications

Next ==
    \/ Open
    \/ Close
    \/ \E t \in TaskIds : SupStart(t)
    \/ \E t \in TaskIds : GetLoadDone(t)
    \/ \E t \in TaskIds : ConnectOK(t)
    \/ \E t \in TaskIds : ConnectFail(t)
    \/ \E t \in TaskIds : RemoteClose(t)
    \/ \E t \in TaskIds : Cancelled(t)
    \/ \E t \in TaskIds : ClosingDone(t)
    \/ \E t \in TaskIds : RecvUnauthorized(t)
    \/ \E t \in TaskIds, tok \in Tokens \cup {NoToken} : RecvConnectRemote(t, tok)
    \/ \E t \in TaskIds : SetLoadDone(t)
    \/ \E t \in TaskIds : SetSaveDone(t)
    \/ \E t \in TaskIds : RecvConnectControl(t)
    \/ \E t \in TaskIds, r \in Responses : RecvInstalled(t, r)
    \/ \E t \in TaskIds, id \in AppIds \cup {UnknownId}, p \in BOOLEAN :
           RecvStatus(t, id, p)
    \/ \E t \in TaskIds : RecvOther(t)
    \/ \E t \in TaskIds : MonWake(t)
    \/ \E t \in TaskIds : MonWhile(t)
    \/ \E t \in TaskIds, ok \in BOOLEAN : MonFor(t, ok)

\* The client with its background tasks, the device and a caller that opens
\* and closes it.
Spec == Init /\ [][Next]_vars

\* What a task does by itself once it can run: asyncio resumes a task whose
\* wait is over, a cancelled task gets its CancelledError, reads and writes of
\* the store and connection attempts come to an end.  Nothing is assumed of
\* the device's frames or of the caller.
TaskStep(t) ==
    \/ SupStart(t)
    \/ GetLoadDone(t)
    \/ ConnectOK(t)
    \/ ConnectFail(t)
    \/ SetLoadDone(t)
    \/ SetSaveDone(t)
    \/ Cancelled(t)
    \/ ClosingDone(t)
    \/ MonWake(t)
    \/ MonWhile(t)
    \/ \E ok \in BOOLEAN : MonFor(t, ok)

FairSpec == Spec /\ \A t \in TaskIds : WF_vars(TaskStep(t))

\* The command surface: one open(), a device that pairs without a token and
\* lists its apps, and a caller that sends keys and runs apps at any moment.
InitCmd == InitWith(1, CmdFrames)

NextCmd ==
    \/ Open
    \/ Close
    \/ \E t \in TaskIds : SupStart(t)
    \/ \E t \in TaskIds : GetLoadDone(t)
    \/ \E t \in TaskIds : ConnectOK(t)
    \/ \E t \in TaskIds : ConnectFail(t)
    \/ \E t \in TaskIds : RemoteClose(t)
    \/ \E t \in TaskIds : Cancelled(t)
    \/ \E t \in TaskIds : ClosingDone(t)
    \/ \E t \in TaskIds : RecvConnectRemote(t, NoToken)
    \/ \E t \in TaskIds, r \in Responses : RecvInstalled(t, r)
    \/ \E ok \in BOOLEAN : SendKey("KEY_VOLUP", ok)
    \/ \E id \in AppIds \cup {UnknownId},
          a \in {"", "NATIVE_LAUNCH", "DEEP_LINK"}, ok \in BOOLEAN : RunApp(id, a, ok)

CmdSpec == InitCmd /\ [][NextCmd]_vars

\* The running-app tracking: one open(), a device that pairs without a token,
\* lists its apps (also with faulty lists), runs DeviceApp throughout and
\* answers the monitor's status queries, each at any later moment.
InitApp == InitWith(1, AppFrames)

NextApp ==
    \/ Open
    \/ Close
    \/ \E t \in TaskIds : SupStart(t)
    \/ \E t \in TaskIds : GetLoadDone(t)
    \/ \E t \in TaskIds : ConnectOK(t)
    \/ \E t \in TaskIds : RemoteClose(t)
    \/ \E t \in TaskIds : Cancelled(t)
    \/ \E t \in TaskIds : ClosingDone(t)
    \/ \E t \in TaskIds : RecvConnectRemote(t, NoToken)
    \/ \E t \in TaskIds : RecvConnectControl(t)
    \/ \E t \in TaskIds, r \in Responses \cup BadResponses, cb \in BOOLEAN :
           RecvInstalledCb(t, r, cb)
    \/ \E t \in TaskIds : RecvInstalledNoList(t)
    \/ \E t \in TaskIds, id \in AppIds, cb \in BOOLEAN : RecvReply(t, id, cb)
    \/ \E t \in TaskIds : MonWake(t)
    \/ \E t \in TaskIds : MonWhile(t)
    \/ \E t \in TaskIds, ok \in BOOLEAN : MonFor(t, ok)
    \/ \E t \in TaskIds : MonSweepEndRaise(t)

AppSpec == InitApp /\ [][NextApp]_vars

\* AppSpec under asyncio's scheduling of the tasks.
FairAppSpec == AppSpec /\ \A t \in TaskIds : WF_vars(TaskStep(t))

\* The router: one open() and a device that sends frames of every kind, well
\* formed or not, and answers status queries; the caller runs apps.
InitRouter == InitWith(1, RouterFrames)

NextRouter ==
    \/ Open
    \/ \E t \in TaskIds : SupStart(t)
    \/ \E t \in TaskIds : GetLoadDone(t)
    \/ \E t \in TaskIds : ConnectOK(t)
    \/ \E t \in TaskIds : RecvConnectRemote(t, NoToken)
    \/ \E t \in TaskIds : RecvConnectControl(t)
    \/ \E t \in TaskIds, r \in Responses \cup BadResponses, cb \in BOOLEAN :
           RecvInstalledCb(t, r, cb)
    \/ \E t \in TaskIds : RecvInstalledNoList(t)
    \/ \E t \in TaskIds : RecvUnauthorized(t)
    \/ \E t \in TaskIds : RecvOther(t)
    \/ \E t \in TaskIds : RecvMalformed(t)
    \/ \E t \in TaskIds, closed \in BOOLEAN : RecvError(t, closed)
    \/ \E t \in TaskIds, id \in AppIds, cb \in BOOLEAN : RecvReply(t, id, cb)
    \/ \E t \in TaskIds : MonWake(t)
    \/ \E t \in TaskIds : MonWhile(t)
    \/ \E t \in TaskIds, ok \in BOOLEAN : MonFor(t, ok)
    \/ \E t \in TaskIds : MonSweepEndRaise(t)
    \/ \E id \in AppIds, ok \in BOOLEAN : RunApp(id, "", ok)

RouterSpec == InitRouter /\ [][NextRouter]_vars

\* ----------------------------------------------------------------- claims

RemoteBusy(t) ==
    /\ task[t].kind = WS_REMOTE
    /\ task[t].pc \in {"start", "get_load", "connecting", "receive", "set_load", "set_save"}
    /\ ~task[t].cancel

TransportFailure == ev.op \in {"connect_failed", "remote_close"}

\* What get(ATTR_TOKEN) returns now: the token in memory, else the file's.
HeldToken == IF store_data # NoToken THEN store_data ELSE store_file

AllTasksDone == \A t \in TaskIds : ~Live(t)

\* The command's socket: the remote one for send_key, for run_app the one of
\* the action type.
CommandHandle ==
    IF ev.op = "send_key"
    THEN ws_remote
    ELSE RunAppHandle(ActionType(ev.arg, ev.param))

DefaultRunApp == ev.op = "run_app" /\ ev.param = ""

\* app_type of a web (deep-link) app; every other type is a native app.
WebAppType == 2

NativeLaunchFrame(app_id) ==
    Frame(WS_REMOTE, ws_remote, "ed.apps.launch", app_id, "NATIVE_LAUNCH")

DeepLinkFrame(app_id) ==
    Frame(WS_CONTROL, ws_control, "ms.application.start", app_id, "")

\* One frame and no other, unless the write failed and none was sent.
SentOnly(frame) ==
    \/ ev.sent = <<frame>> /\ "send" \in ev.fx
    \/ ev.sent = <<>> /\ "send_error" \in ev.fx

\* C1: once an ms.channel.unauthorized frame has been routed, the supervisor
\* of that connection has stopped: its task has returned and the channel's
\* socket handle no longer names its socket.
C1_UnauthorizedStopsChannel ==
    (ev.op = "recv" /\ ev.arg = "unauthorized") =>
        /\ task[ev.t].pc = "done"
        /\ ws_remote # ev.t
        /\ ws_control # ev.t

\* C2: send_key or run_app called while the socket it needs is not open
\* raises a failure to the caller and sends no frame.
C2_SendFailureSurfaced ==
    (ev.op \in {"send_key", "run_app"} /\ ~HandleOpen(CommandHandle)) =>
        /\ ev.raised
        /\ ev.sent = <<>>

\* C3: open() starts a supervisor only when no remote supervisor is already
\* connecting or open: after an open() that started one, it is the only one.
C3_OpenIdempotent ==
    (ev.op = "open" /\ "spawn" \in ev.fx) =>
        \A t \in TaskIds : RemoteBusy(t) => t = remote_task

\* C4: after a transport failure of a supervisor, with close() not called, a
\* connection attempt on the same channel follows (or close() is called).
C4_RetryAfterFailure ==
    \A c \in {WS_REMOTE, WS_CONTROL} :
        (TransportFailure /\ ev.arg = c /\ ~closeCalled)
            ~> ((ev.op = "attempt" /\ ev.arg = c) \/ closeCalled)

\* C5: a supervisor whose connection just failed for the first time since its
\* last full connection is sleeping retry_delay(1) seconds, the base delay.
C5_BackoffDelay ==
    (TransportFailure /\ ~closeCalled) =>
        /\ task[ev.t].pc = "sleep"
        /\ task[ev.t].sleep = 1000 * retry_delay(1)

\* C6: when a handshake has stored its token, the store holds the last token
\* the device issued; and once a token is stored, a remote connection attempt
\* carries the stored token in its URL.
C6_TokenPersisted ==
    /\ ev.op = "stored" => HeldToken = issued
    /\ (ev.op = "attempt" /\ ev.arg = WS_REMOTE /\ HeldToken # NoToken) =>
           task[ev.t].url.token = HeldToken

\* C7: once close() is called, all tasks ever started come to an end and both
\* socket handles are released (unless open() is called again).
C7_CloseTerminatesAll ==
    closeCalled ~>
        (~closeCalled \/ (AllTasksDone /\ ws_remote = NoTask /\ ws_control = NoTask))

\* C8: after close(), a step of a background task has no effect outside the
\* task: no registry replacement, no change of Current App, no callback, no
\* frame sent, no connection attempt, no task started.
C8_NoEffectAfterClose ==
    (closeCalled /\ ev.t # NoTask) => ev.fx = {}

\* C9: run_app without action type, for an app of the registry, sends one
\* frame and no other: ed.apps.launch with NATIVE_LAUNCH on the remote socket
\* for a native app, ms.application.start on the control socket for a web app.
C9_RunAppByType ==
    (DefaultRunApp /\ InRegistry(installed_apps, ev.arg)) =>
        IF Lookup(installed_apps, ev.arg).app_type = WebAppType
        THEN SentOnly(DeepLinkFrame(ev.arg))
        ELSE SentOnly(NativeLaunchFrame(ev.arg))

\* A web app of the registry was run and its frame went out.
C9_Witness ==
    /\ DefaultRunApp
    /\ InRegistry(installed_apps, ev.arg)
    /\ Lookup(installed_apps, ev.arg).app_type = WebAppType
    /\ ev.sent = <<DeepLinkFrame(ev.arg)>>

\* C10 as claimed: run_app without action type, for an app_id that is not in
\* the registry, sends ed.apps.launch with NATIVE_LAUNCH on the remote socket.
C10_UnknownIsNative ==
    (DefaultRunApp /\ ~InRegistry(installed_apps, ev.arg)) =>
        SentOnly(NativeLaunchFrame(ev.arg))

\* C10 as amended: run_app without action type, for an app_id that is not in
\* the registry, uses DEEP_LINK: it sends ms.application.start on the control
\* socket and nothing on the remote socket.
C10_UnknownIsDeepLink ==
    (DefaultRunApp /\ ~InRegistry(installed_apps, ev.arg)) =>
        SentOnly(DeepLinkFrame(ev.arg))

\* An app that is not in the registry was run and its frame went out.
C10_Witness ==
    /\ DefaultRunApp
    /\ ~InRegistry(installed_apps, ev.arg)
    /\ ev.sent = <<DeepLinkFrame(ev.arg)>>

\* C11: the callback is invoked in a step exactly when that step changes
\* Current App: once for each change, never with Current App unchanged.
C11_CallbackOncePerChange ==
    [][("callback" \in ev'.fx) <=> (current_app' # current_app)]_vars

\* C12: with DeviceApp answering every status query as running and visible
\* and no other app reporting running, Current App, once it is DeviceApp,
\* stays DeviceApp for as long as DeviceApp is in the registry: it goes from
\* none to DeviceApp once and never back.
C12_CurrentAppStays ==
    [][(current_app.app_id = DeviceApp /\ InRegistry(installed_apps', DeviceApp))
           => current_app'.app_id = DeviceApp]_vars

\* C13: the end of a full sweep in which no app reported running, with Current
\* App set, clears Current App and invokes the callback; and nothing else ever
\* takes Current App from an app to none.
C13_ClearedBySweepOnly ==
    [][/\ (/\ ev'.op = "sweep_end"
           /\ current_app # NoApp
           /\ ~found_running_app)
          => (current_app' = NoApp /\ "callback" \in ev'.fx)
       /\ (current_app # NoApp /\ current_app' = NoApp)
          => (/\ ev'.op = "sweep_end"
              /\ ~found_running_app
              /\ task[ev'.t].todo = <<>>)]_vars

\* C14: no background task ends with an exception that nothing caught.
C14_NoUncaughtException == ev.op # "uncaught"

\* The tasks of one kind that have been created and have not returned.
LiveOfKind(k) == {t \in TaskIds : Live(t) /\ task[t].kind = k}

\* C15: at every moment there is at most one remote supervisor, at most one
\* control supervisor and at most one monitor loop.
C15_OneTaskPerRole ==
    \A k \in {WS_REMOTE, WS_CONTROL, "monitor"} : Cardinality(LiveOfKind(k)) <= 1

\* C16: a connection attempt on the control channel is made only when the
\* remote supervisor of the most recent open() has received its
\* ms.channel.connect frame.
C16_ControlAfterHandshake ==
    (ev.op = "attempt" /\ ev.arg = WS_CONTROL) =>
        (remote_task # NoTask /\ task[remote_task].hs)

\* A text frame whose handling failed or found no handler: a malformed
\* payload, an unrecognized event, an exception raised in a handler.
FrameFailed(e) ==
    /\ e.op = "recv"
    /\ e.arg # "error"
    /\ "handler_error" \in e.fx \/ e.arg \in {"other", "unauthorized"}

\* The read loop of the supervisor goes on and the sockets stay as they were.
LoopGoesOn(t) ==
    /\ task'[t].pc = "receive"
    /\ ws_remote' = ws_remote
    /\ ws_control' = ws_control

\* C17 as claimed: a text frame whose handling fails is dropped: the read loop
\* goes on, the channel stays open, registry and Current App are unchanged.
C17_FailedFrameChangesNothing ==
    [][FrameFailed(ev') =>
           /\ LoopGoesOn(ev'.t)
           /\ installed_apps' = installed_apps
           /\ current_app' = current_app]_vars

\* C17 as amended: a text frame whose handling fails never ends the read loop
\* or closes the channel; registry and Current App are unchanged by it unless
\* the failure is the callback's, which is invoked after the assignment.
C17_FailedFrameKeepsLoop ==
    [][FrameFailed(ev') =>
           /\ LoopGoesOn(ev'.t)
           /\ "callback" \notin ev'.fx =>
                  (installed_apps' = installed_apps /\ current_app' = current_app)]_vars

\* An installed-apps response failed in _build_app_list with a registry in
\* place, and the supervisor is back in its read loop.
C17_Witness ==
    /\ ev.op = "recv" /\ ev.arg = "installed"
    /\ "handler_error" \in ev.fx /\ "callback" \notin ev.fx
    /\ installed_apps # <<>>
    /\ task[ev.t].pc = "receive"

\* C18: once an error frame has been routed, the error has reached the
\* supervisor (no handler-level except has taken it), the read loop of that
\* connection has ended and the channel's handle no longer names its socket.
C18_ErrorReachesSupervisor ==
    (ev.op = "recv" /\ ev.arg = "error") =>
        /\ "handler_error" \notin ev.fx
        /\ task[ev.t].pc = "done"
        /\ ws_remote # ev.t
        /\ ws_control # ev.t

\* The monitor loop t runs although the control channel is not open or close()
\* has been called.
MonitorOutlived(t) ==
    /\ task[t].kind = "monitor"
    /\ Live(t)
    /\ ~ControlOpen \/ closeCalled

\* C19: a monitor loop that runs when the control channel is no longer open,
\* or when close() has been called, exits (unless the channel is opened again
\* and close() revoked by a later open()).
C19_MonitorExits ==
    \A t \in TaskIds : MonitorOutlived(t) ~> ~MonitorOutlived(t)

\* The apps an installed-apps list names, filtered names left out: as a set,
\* and in the order of the list.
ListedApps(list) ==
    {App(list[i].appId, list[i].app_type) : i \in {j \in DOMAIN list : ~list[j].waipu}}

ListedSeq(list) ==
    LET Keep(e) == ~e.waipu
        kept == SelectSeq(list, Keep)
    IN  [i \in DOMAIN kept |-> App(kept[i].appId, kept[i].app_type)]

\* Every entry the filter keeps has all its keys.
CompleteList(list) ==
    \A i \in DOMAIN list : ~list[i].waipu => list[i].app_type # NoField

\* The registries that are whole: the empty one of __init__ and the one of
\* each complete response.
WholeRegistries == {<<>>} \cup {ListedSeq(r) : r \in Responses}

IsSuffixOf(s, w) ==
    \E k \in 0..Len(w) : s = SubSeq(w, k + 1, Len(w))

\* What the readers hold: run_app the registry itself, a monitor loop in a
\* sweep the rest of the registry it began the sweep with.
ReadersSeeWhole ==
    /\ installed_apps \in WholeRegistries
    /\ \A t \in TaskIds :
           (task[t].kind = "monitor" /\ task[t].pc \in {"for", "sleep"}) =>
               \E w \in WholeRegistries : IsSuffixOf(task[t].todo, w)

\* C20: a processed installed-apps response leaves in the registry exactly the
\* apps it lists (filtered names left out) and nothing of the registry before;
\* a response whose list is missing or has a faulty entry leaves the registry
\* as it was; and the monitor loop and run_app only ever see a whole registry.
C20_RegistryReplacedWhole ==
    [][/\ (ev'.op = "recv" /\ ev'.arg = "installed") =>
              IF ev'.param # "no_list" /\ CompleteList(ev'.data)
              THEN /\ {installed_apps'[i] : i \in DOMAIN installed_apps'}
                          = ListedApps(ev'.data)
                   /\ Len(installed_apps') = Cardinality(ListedApps(ev'.data))
              ELSE installed_apps' = installed_apps
       /\ ReadersSeeWhole
       /\ ReadersSeeWhole']_vars

\* A response has replaced the registry {A, B} by {B} while a monitor loop,
\* asleep in its sweep, still has the old entry of B to query.
C20_Witness ==
    /\ ev.op = "recv" /\ ev.arg = "installed" /\ "registry" \in ev.fx
    /\ installed_apps = <<App("B", 4)>>
    /\ \E t \in TaskIds :
           /\ task[t].kind = "monitor"
           /\ task[t].pc = "sleep"
           /\ task[t].todo = <<App("B", 2)>>

\* C21: Current App is none or an entry of the registry as it is now.
C21_CurrentAppInRegistry ==
    current_app # NoApp =>
        \E i \in DOMAIN installed_apps : installed_apps[i] = current_app

\* The monitor treats the app as a web application: the method of its query.
QueriedAsWeb(app) == StatusQuery(app).method = "ms.webapplication.get"

\* C22: the monitor and run_app classify an app of the registry alike: a
\* status query the monitor sends uses ms.webapplication.get exactly when
\* run_app without action type would launch that app as DEEP_LINK, and
\* run_app launches an app as DEEP_LINK exactly when the monitor would query
\* it with ms.webapplication.get.
C22_SameClassification ==
    /\ (ev.op = "query" /\ Lookup(installed_apps, ev.sent[1].app) # NoApp) =>
           ((ev.sent[1].method = "ms.webapplication.get")
                <=> (DefaultActionType(ev.sent[1].app) = "DEEP_LINK"))
    /\ (DefaultRunApp /\ InRegistry(installed_apps, ev.arg)) =>
           ((ActionType(ev.arg, ev.param) = "DEEP_LINK")
                <=> QueriedAsWeb(Lookup(installed_apps, ev.arg)))

\* C23: while connected is true both socket handles are set and the
\* connection the control handle names has received its ms.channel.connect.
C23_ConnectedMeansBothOpen ==
    connected =>
        /\ ws_remote # NoTask
        /\ ws_control # NoTask
        /\ task[ws_control].hs

\* self._ws_<channel>.
HandleOf(c) == IF c = WS_REMOTE THEN ws_remote ELSE ws_control

\* The supervisors of a channel that are inside "async with ws_connect(...)":
\* their connection exists (it may be in the course of closing).
Connections(c) ==
    {t \in TaskIds : task[t].kind = c
                       /\ task[t].pc \in {"receive", "set_load", "set_save", "closing"}}

\* C24: for each channel the socket handle is set exactly when a connection
\* of that channel exists, and it names one of them: a supervisor that ends
\* never takes away the handle of another connection that is still there.
C24_HandleTracksConnection ==
    \A c \in {WS_REMOTE, WS_CONTROL} :
        /\ (HandleOf(c) # NoTask) <=> (Connections(c) # {})
        /\ HandleOf(c) # NoTask => HandleOf(c) \in Connections(c)

\* C25: the monitor loop, once it has the processor, gives it up again: it
\* reaches a suspension point (or returns), so that the read loops, close()
\* and the commands get to run.
C25_MonitorYields ==
    \A t \in TaskIds : (running = t) ~> (running # t)
====
